---- MODULE Spec2Model ----
(***************************************************************************)
(* StormSight: the track query service (backend.py) and the KMZ/KML        *)
(* ingestion pipeline (load_track_data.py) over one shared document        *)
(* collection.                                                             *)
(*                                                                         *)
(* Three specifications share the module:                                  *)
(*   Spec        the query service: get_db_collection and GET /track_data  *)
(*   SpecIngest  the ingestion run of load_track_data.py's main block      *)
(*   SpecParse   parse_kml_features applied to bounded markup documents    *)
(*                                                                         *)
(* Encodings.  An optional value (Python None or a value) is a sequence of *)
(* length 0 or 1.  A stored timestamp string "YYYY-MM-DDTHH:00:00Z" is the *)
(* number of whole hours since the first hour of the track: the format is  *)
(* fixed-width and zero-padded, so the store's string order is the order   *)
(* of these numbers.                                                       *)
(***************************************************************************)
EXTENDS Integers, Sequences, FiniteSets, TLC

VARIABLES
    \* ---- the document collection stormsight_db.track_data ----
    store,             \* sequence of stored documents, in insertion order
    indexes,           \* set of index names created on the collection
    \* ---- backend.py ----
    db_client,         \* global db_client: Null or <<id of the MongoClient>>
    track_collection,  \* global track_collection: Null or <<id of the handle>>
    connects,          \* number of MongoClient connection attempts so far
    lastcall,          \* outcome of the latest get_db_collection call
    request,           \* Null or <<the request being answered>>
    rule,              \* branch of the time filter the handler took
    result,            \* list(cursor) of the request being answered
    response,          \* Null or <<the response returned>>
    \* ---- load_track_data.py ----
    pc,                \* position of the ingestion run
    kml_bytes,         \* Null or <<markup document read from the archive>>
    storm_data,        \* records returned by parse_kml_features
    log,               \* steps the run has announced on standard output
    failed,            \* Null or <<the step that failed>>
    runs,              \* ingestion runs started
    completed,         \* ingestion runs that reached "Data loading complete!"
    \* ---- parse_kml_features alone ----
    doc,               \* the markup document handed to the parser
    records,           \* Null or <<the list the parser returned>>
    trail              \* per placemark: what the lookups and parsers found

vars == <<store, indexes, db_client, track_collection, connects, lastcall,
          request, rule, result, response, pc, kml_bytes, storm_data, log,
          failed, runs, completed, doc, records, trail>>

serviceVars == <<db_client, track_collection, connects, lastcall, request,
                 rule, result, response>>
ingestVars == <<pc, kml_bytes, storm_data, log, failed, runs, completed>>
parseVars == <<doc, records, trail>>

\* ------------------------------------------------------------------ bounds

MaxHour == 1
MaxDocs == 2
MaxConnects == 2
MaxPlacemarks == 2
MaxNamespaces == 2
MaxRuns == 2

\* ------------------------------------------------------------ shared values

Null == <<>>
Some(v) == <<v>>
IsNull(o) == o = <<>>
Get(o) == o[1]

Hours == 0..MaxHour

STORM_NAME_FOR_DB == "BESTTRACK_2020"
DEFAULT_STORM_ID == "BESTTRACK_2020"
OTHER_STORM == "AMPHAN_2020"
StormIds == {STORM_NAME_FOR_DB, OTHER_STORM}

\* The GeoJSON point the loader stores under "location".
Point(lon, lat) == [type |-> "Point", coordinates |-> <<lon, lat>>]

Range(s) == {s[i] : i \in DOMAIN s}

\* ----------------------------------------------------- request parameters

\* A time parameter's text.  "iso" is a string datetime.fromisoformat
\* accepts: wall is its wall-clock fields (whole hours since the first hour
\* of the track), off its UTC offset in hours.  "malformed" is a non-empty
\* string it rejects ("not-a-date"); "empty" is the empty string.
Offsets == {0, 1}
IsoStrings == [kind : {"iso"}, wall : Hours, off : Offsets]
EmptyString == [kind |-> "empty", wall |-> 0, off |-> 0]
MalformedString == [kind |-> "malformed", wall |-> 0, off |-> 0]
TimeStrings == IsoStrings \cup {EmptyString, MalformedString}
TimeParams == {Null} \cup {Some(s) : s \in TimeStrings}
StormParams == {Null, Some(OTHER_STORM)}

\* The requests sent.  The three time parameters take every combination of
\* absent / empty / malformed / ISO, one ISO string standing for the kind;
\* and every string in timestamp alone, and in start and end together.
CoarseParams ==
    {Null, Some(EmptyString), Some(MalformedString),
     Some([kind |-> "iso", wall |-> 0, off |-> 0])}
Requests ==
    [timestamp : CoarseParams, start : CoarseParams, end : CoarseParams,
     storm_id : StormParams]
    \cup [timestamp : TimeParams, start : {Null}, end : {Null},
          storm_id : StormParams]
    \cup [timestamp : {Null}, start : TimeParams, end : TimeParams,
          storm_id : StormParams]

\* Python truthiness of request.args.get(name): None and "" are falsy.
Truthy(p) == ~IsNull(p) /\ Get(p).kind # "empty"

\* datetime.fromisoformat(s.replace('Z', '+00:00')): the parsed datetime, or
\* Null for ValueError.
FromIsoFormat(s) ==
    IF s.kind = "iso" THEN Some([wall |-> s.wall, off |-> s.off]) ELSE Null

\* dt.strftime("%Y-%m-%dT%H:%M:%SZ"): prints the datetime's own wall-clock
\* fields and a literal Z; its offset is not applied.
Strftime(dt) == dt.wall

\* The UTC instant a parsed datetime denotes.
UtcInstant(dt) == dt.wall - dt.off

\* ------------------------------------------------------ the collection

\* A stored document (load_track_data.py's record layout).  location is
\* optional here: the query service reads documents it did not write.
Doc(sid, ts, lon, lat, loc, wind, mb) ==
    [storm_id |-> sid, timestamp |-> ts, latitude |-> lat, longitude |-> lon,
     location |-> loc, wind_kts |-> wind, pressure_mb |-> mb]

\* collection.find({"storm_id": sid, "timestamp": {"$gte": lo, "$lte": hi}}):
\* the positions of the matching documents; lo and hi are optional.
Find(st, sid, lo, hi) ==
    {i \in DOMAIN st :
        /\ st[i].storm_id = sid
        /\ (IsNull(lo) \/ st[i].timestamp >= Get(lo))
        /\ (IsNull(hi) \/ st[i].timestamp <= Get(hi))}

\* cursor.sort("timestamp", direction): every order of the matched documents
\* the sort may deliver (documents with equal timestamps come in any order).
Sort(st, idx, direction) ==
    LET n == Cardinality(idx)
    IN  {[j \in 1..n |-> st[o[j]]] :
            o \in {f \in [1..n -> idx] :
                     /\ \A a, b \in 1..n : a # b => f[a] # f[b]
                     /\ \A j \in 1..(n - 1) :
                          IF direction = "ASCENDING"
                          THEN st[f[j]].timestamp <= st[f[j + 1]].timestamp
                          ELSE st[f[j]].timestamp >= st[f[j + 1]].timestamp}}

\* cursor.limit(1), then list(cursor).
Limit1(seqs) == {IF Len(s) = 0 THEN s ELSE SubSeq(s, 1, 1) : s \in seqs}

\* --------------------------------------------------- backend.py: handle

\* Variant: a failed attempt caches the handle of the dead client.
GetDbCollectionSticky(up) ==
    IF IsNull(track_collection)
    THEN [db_client        |-> Some(connects + 1),
          track_collection |-> Some(connects + 1),
          connects         |-> connects + 1,
          attempted        |-> TRUE,
          up               |-> up,
          returned         |-> IF up THEN Some(connects + 1) ELSE Null]
    ELSE [db_client        |-> db_client,
          track_collection |-> track_collection,
          connects         |-> connects,
          attempted        |-> FALSE,
          up               |-> TRUE,
          returned         |-> track_collection]

\* get_db_collection(): up says whether the server answers the ismaster
\* check.  MongoClient(...) is assigned to db_client before the check, so a
\* failed attempt leaves a client but no collection handle.
GetDbCollection(up) ==
    IF IsNull(track_collection)
    THEN [db_client        |-> Some(connects + 1),
          track_collection |-> IF up THEN Some(connects + 1) ELSE Null,
          connects         |-> connects + 1,
          attempted        |-> TRUE,
          up               |-> up,
          returned         |-> IF up THEN Some(connects + 1) ELSE Null]
    ELSE [db_client        |-> db_client,
          track_collection |-> track_collection,
          connects         |-> connects,
          attempted        |-> FALSE,
          up               |-> TRUE,
          returned         |-> track_collection]

\* A connection attempt is only modelled while the counter is below its cap.
CanCall == ~IsNull(track_collection) \/ connects < MaxConnects

\* ------------------------------------------- backend.py: GET /track_data

\* request.args.get('storm_id', "BESTTRACK_2020")
StormIdParam(req) ==
    IF IsNull(req.storm_id) THEN DEFAULT_STORM_ID ELSE Get(req.storm_id)

\* Variant: the range test comes before the timestamp test.
SelectRuleRangeFirst(req) ==
    IF Truthy(req.start) /\ Truthy(req.end) THEN "range"
    ELSE IF Truthy(req.timestamp) THEN "exact"
    ELSE "all"

\* The if / elif / else of the time filtering logic.
SelectRule(req) ==
    IF Truthy(req.timestamp) THEN "exact"
    ELSE IF Truthy(req.start) /\ Truthy(req.end) THEN "range"
    ELSE "all"

\* timestamp branch: latest document at or before the target string, else
\* the earliest document of the storm.
ExactQuery(st, sid, dt) ==
    LET first == Limit1(Sort(st, Find(st, sid, Null, Some(Strftime(dt))),
                             "DESCENDING"))
    IN  IF first # {<<>>} THEN first
        ELSE Limit1(Sort(st, Find(st, sid, Null, Null), "ASCENDING"))

\* start/end branch.
RangeQuery(st, sid, sdt, edt) ==
    Sort(st, Find(st, sid, Some(Strftime(sdt)), Some(Strftime(edt))),
         "ASCENDING")

\* else branch.
AllQuery(st, sid) == Sort(st, Find(st, sid, Null, Null), "ASCENDING")

ErrorResponse(code, msg) ==
    [status |-> code, error |-> msg, type |-> "", features |-> <<>>]

\* geojson.Feature(geometry=..., properties=...) of one result document.
Feature(d) ==
    [type |-> "Feature",
     geometry |-> Get(d.location),
     properties |-> [timestamp |-> d.timestamp, wind_kts |-> d.wind_kts,
                     pressure_mb |-> d.pressure_mb, storm_id |-> d.storm_id]]

\* Variant: the loop stops at the first document without a geometry.
RECURSIVE ToFeaturesBreak(_)
ToFeaturesBreak(res) ==
    IF Len(res) = 0 \/ IsNull(Head(res).location) THEN <<>>
    ELSE <<Feature(Head(res))>> \o ToFeaturesBreak(Tail(res))

\* The loop over result: a feature for each document whose geometry is
\* truthy, in result order.
RECURSIVE ToFeatures(_)
ToFeatures(res) ==
    IF Len(res) = 0 THEN <<>>
    ELSE IF IsNull(Head(res).location) THEN ToFeatures(Tail(res))
    ELSE <<Feature(Head(res))>> \o ToFeatures(Tail(res))

\* jsonify(geojson.FeatureCollection(features))
FeatureCollection(res) ==
    [status |-> 200, error |-> "", type |-> "FeatureCollection",
     features |-> ToFeatures(res)]

\* What the time filter does once the handle is there: every
\* [rule, result, response] it can end with.  qok says whether the store
\* executes the query without raising.
TimeFilter(st, req, qok) ==
    LET sid == StormIdParam(req)
        branch == SelectRule(req)
        Fail400(msg) == {[rule |-> branch, result |-> <<>>,
                          response |-> ErrorResponse(400, msg)]}
        Fail500 == {[rule |-> branch, result |-> <<>>,
                     response |-> ErrorResponse(500, "Database query failed")]}
        Ok(results) == {[rule |-> branch, result |-> r,
                         response |-> FeatureCollection(r)] : r \in results}
    IN  CASE branch = "exact" ->
               LET dt == FromIsoFormat(Get(req.timestamp))
               IN  IF IsNull(dt) THEN Fail400("Invalid timestamp format")
                   ELSE IF ~qok THEN Fail500
                   ELSE Ok(ExactQuery(st, sid, Get(dt)))
          [] branch = "range" ->
               LET sdt == FromIsoFormat(Get(req.start))
                   edt == FromIsoFormat(Get(req.end))
               IN  IF IsNull(sdt) \/ IsNull(edt)
                   THEN Fail400("Invalid start/end time format")
                   ELSE IF ~qok THEN Fail500
                   ELSE Ok(RangeQuery(st, sid, Get(sdt), Get(edt)))
          [] OTHER ->
               IF ~qok THEN Fail500 ELSE Ok(AllQuery(st, sid))

\* get_track_data(): the whole handler, from get_db_collection() to the
\* returned response.
GetTrackData(req, fault) ==
    /\ IsNull(response)
    /\ IsNull(lastcall)
    /\ CanCall
    /\ fault = "connect" => IsNull(track_collection)
    /\ LET c == GetDbCollection(fault # "connect")
           qok == fault # "query"
       IN  /\ db_client' = c.db_client
           /\ track_collection' = c.track_collection
           /\ connects' = c.connects
           /\ lastcall' = Some([attempted |-> c.attempted, up |-> c.up,
                                returned |-> c.returned])
           /\ request' = Some(req)
           /\ IF IsNull(c.returned)
              THEN /\ rule' = "none"
                   /\ result' = <<>>
                   /\ response' = Some(ErrorResponse(500,
                                        "Database connection failed"))
              ELSE \E o \in TimeFilter(store, req, qok) :
                     /\ rule' = o.rule
                     /\ result' = o.result
                     /\ response' = Some(o.response)
    /\ UNCHANGED <<store, indexes, ingestVars, parseVars>>

\* The response has gone out; the service waits for the next request.
Reply ==
    /\ ~IsNull(response)
    /\ request' = Null
    /\ rule' = "none"
    /\ result' = <<>>
    /\ response' = Null
    /\ lastcall' = Null
    /\ UNCHANGED <<store, indexes, db_client, track_collection, connects,
                   ingestVars, parseVars>>

\* The startup call has returned; app.run starts serving.
AppRun ==
    /\ IsNull(response)
    /\ ~IsNull(lastcall)
    /\ lastcall' = Null
    /\ UNCHANGED <<store, indexes, db_client, track_collection, connects,
                   request, rule, result, response, ingestVars, parseVars>>

\* backend.py run as a script: get_db_collection() once before app.run.
Startup(up) ==
    /\ connects = 0
    /\ IsNull(lastcall)
    /\ IsNull(response)
    /\ LET c == GetDbCollection(up)
       IN  /\ db_client' = c.db_client
           /\ track_collection' = c.track_collection
           /\ connects' = c.connects
           /\ lastcall' = Some([attempted |-> c.attempted, up |-> c.up,
                                returned |-> c.returned])
    /\ UNCHANGED <<store, indexes, request, rule, result, response,
                   ingestVars, parseVars>>

\* ------------------------------- load_track_data.py: parse_kml_features

(***************************************************************************)
(* A markup document, as lxml presents it:                                 *)
(*   empty      the byte string is empty                                   *)
(*   valid      it parses as XML (as UTF-8, or else as latin-1)            *)
(*   nsmap      root.nsmap in iteration order: <<[prefix, uri], ...>>,     *)
(*              prefix "" for the default namespace (lxml's None key)      *)
(*   placemarks the Placemark elements in document order, each             *)
(*              [ns, point, desc]: ns the element's namespace URI ("" for  *)
(*              none); point Null or <<[pns, cns, text]>>, the namespaces  *)
(*              of its Point and coordinates elements and the coordinates  *)
(*              text; desc Null or <<[dns, cells]>>, the namespace of its  *)
(*              description element and the label cells of its text.       *)
(* A coordinates text is the sequence of its comma-separated fields, each  *)
(* <<number>> if float() accepts it and Null if not.  A description's      *)
(* cells are [dtg, intensity, mslp], each Null when the label's marker is  *)
(* not in the text, or <<the value text of the cell>>.                     *)
(***************************************************************************)

\* The namespaces dict built from root.nsmap: Null for {}, else <<uri>>, the
\* URI registered under 'kml'.
ResolveNamespace(nsmap) ==
    IF Len(nsmap) = 0 THEN Null
    ELSE IF \E i \in DOMAIN nsmap : nsmap[i].prefix = ""
    THEN Some(nsmap[CHOOSE i \in DOMAIN nsmap : nsmap[i].prefix = ""].uri)
    ELSE IF \E i \in DOMAIN nsmap : nsmap[i].prefix = "kml"
    THEN Some(nsmap[CHOOSE i \in DOMAIN nsmap : nsmap[i].prefix = "kml"].uri)
    ELSE Some(nsmap[1].uri)

\* Positions, from `from` on, of the elements whose tag is in namespace ns
\* ("" for no namespace), in document order.
RECURSIVE Positions(_, _, _)
Positions(seq, ns, from) ==
    IF from > Len(seq) THEN <<>>
    ELSE (IF seq[from].ns = ns THEN <<from>> ELSE <<>>)
            \o Positions(seq, ns, from + 1)

\* Variant: no unqualified retry when the qualified search finds nothing.
FindPlacemarksQualifiedOnly(d, namespaces) ==
    IF IsNull(namespaces)
    THEN Positions(d.placemarks, "", 1)
    ELSE Positions(d.placemarks, Get(namespaces), 1)

\* root.xpath('//kml:Placemark', namespaces=...) and, if that found nothing
\* or there is no namespace, root.xpath('//Placemark'): the positions of the
\* placemark elements found.
FindPlacemarks(d, namespaces) ==
    LET qualified ==
            IF IsNull(namespaces) THEN <<>>
            ELSE Positions(d.placemarks,
                           Get(namespaces), 1)
    IN  IF Len(qualified) # 0 THEN qualified
        ELSE Positions(d.placemarks, "", 1)

\* coord_text: './/kml:Point/kml:coordinates/text()', then
\* './/Point/coordinates/text()'.  Null when neither finds a text node.
LookupCoordinates(pm, namespaces) ==
    LET Under(ns) ==
            IF /\ ~IsNull(pm.point)
               /\ Get(pm.point).pns = ns
               /\ Get(pm.point).cns = ns
            THEN Some(Get(pm.point).text) ELSE Null
        qualified == IF IsNull(namespaces) THEN Null
                     ELSE Under(Get(namespaces))
    IN  IF ~IsNull(qualified) THEN qualified ELSE Under("")

\* desc_text: './/kml:description/text()', then './/description/text()'.
LookupDescription(pm, namespaces) ==
    LET Under(ns) ==
            IF ~IsNull(pm.desc) /\ Get(pm.desc).dns = ns
            THEN Some(Get(pm.desc).cells) ELSE Null
        qualified == IF IsNull(namespaces) THEN Null
                     ELSE Under(Get(namespaces))
    IN  IF ~IsNull(qualified) THEN qualified ELSE Under("")

\* lon_str, lat_str, *_ = text.split(','); lon = float(lon_str);
\* lat = float(lat_str), inside one try: fewer than two fields sets neither,
\* a bad first field sets neither, a bad second field leaves lon set.
ParseCoordinates(coord_text) ==
    IF IsNull(coord_text) \/ Len(Get(coord_text)) < 2
    THEN [lon |-> Null, lat |-> Null]
    ELSE LET f == Get(coord_text)
         IN  IF IsNull(f[1]) THEN [lon |-> Null, lat |-> Null]
             ELSE [lon |-> f[1], lat |-> f[2]]

\* The DTG cell: the value must end in Z and be 11 characters long, and its
\* first ten must parse under '%Y%m%d%H'.  A value text is [len, z, hour]:
\* its length, whether it ends in Z, and <<hour>> if its first ten
\* characters are a date-hour (Null if strptime rejects them).  The result
\* is the UTC datetime, or Null.
ParseDtg(cell) ==
    IF IsNull(cell) THEN Null
    ELSE LET v == Get(cell)
         IN  IF v.z /\ v.len = 11 /\ ~IsNull(v.hour)
             THEN Some([wall |-> Get(v.hour), off |-> 0])
             ELSE Null

\* A numeric cell's value text is [kind, value, unit]: kind "empty", "digits"
\* (decimal digits only), "signed" (a minus sign and digits) or "text";
\* unit "" or " mb", what follows the number before the closing tag.

\* The Intensity cell: int(value) if the value is not empty.
ParseIntensity(cell) ==
    IF IsNull(cell) THEN Null
    ELSE LET v == Get(cell)
         IN  IF v.unit = "" /\ v.kind = "digits" THEN Some(v.value)
             ELSE IF v.unit = "" /\ v.kind = "signed" THEN Some(0 - v.value)
             ELSE Null

\* The MSLP cell: the text before ' mb</td>' (or before '</td>'), taken if
\* it is all digits.
ParsePressure(cell) ==
    IF IsNull(cell) THEN Null
    ELSE LET v == Get(cell)
         IN  IF v.kind = "digits" THEN Some(v.value) ELSE Null

\* timestamp.astimezone(timezone.utc)
AsTimezoneUtc(dt) == [wall |-> dt.wall - dt.off, off |-> 0]

\* One iteration of the placemark loop: the locals at its end.
ExtractPlacemark(pm, namespaces) ==
    LET coord_text == LookupCoordinates(pm, namespaces)
        desc_text == LookupDescription(pm, namespaces)
        c == ParseCoordinates(coord_text)
        Cell(name) == IF IsNull(desc_text) THEN Null ELSE Get(desc_text)[name]
    IN  [coord_text |-> coord_text,
         desc_text |-> desc_text,
         lon |-> c.lon,
         lat |-> c.lat,
         timestamp |-> ParseDtg(Cell("dtg")),
         wind_kts |-> ParseIntensity(Cell("intensity")),
         pressure_mb |-> ParsePressure(Cell("mslp"))]

\* Variant: a placemark without a wind value is not admitted either.
AdmitNeedsWind(e) ==
    ~IsNull(e.lat) /\ ~IsNull(e.lon) /\ ~IsNull(e.timestamp)
        /\ ~IsNull(e.wind_kts)

\* if lat is not None and lon is not None and timestamp is not None
Admit(e) == ~IsNull(e.lat) /\ ~IsNull(e.lon) /\ ~IsNull(e.timestamp)

\* The record appended for an admitted placemark.
Record(e) ==
    Doc(STORM_NAME_FOR_DB,
        Strftime(AsTimezoneUtc(Get(e.timestamp))),
        Get(e.lon), Get(e.lat),
        Some(Point(Get(e.lon), Get(e.lat))),
        e.wind_kts, e.pressure_mb)

\* The locals of every iteration of the loop, in order.
Extracted(d) ==
    IF d.empty \/ ~d.valid THEN <<>>
    ELSE LET namespaces == ResolveNamespace(d.nsmap)
             found == FindPlacemarks(d, namespaces)
         IN  [k \in 1..Len(found) |->
                 ExtractPlacemark(d.placemarks[found[k]], namespaces)]

RECURSIVE Admitted(_)
Admitted(es) ==
    IF Len(es) = 0 THEN <<>>
    ELSE (IF Admit(Head(es)) THEN <<Record(Head(es))>> ELSE <<>>)
            \o Admitted(Tail(es))

\* parse_kml_features(kml_content_bytes): the records list returned.
ParseKmlFeatures(d) == Admitted(Extracted(d))

\* ------------------------------------------------- Spec: the query service

\* What the collection may hold when the service reads it: the default
\* storm's track, up to MaxDocs documents at any hours in any insertion
\* order; alone, after a document of another storm, or with the location of
\* its first document missing.
TrackDoc(t, located) ==
    Doc(STORM_NAME_FOR_DB, t, 80 + t, 13,
        IF located THEN Some(Point(80 + t, 13)) ELSE Null,
        IF t = 0 THEN Null ELSE Some(30 + 5 * t),
        Some(1000 - t))

ForeignDoc == Doc(OTHER_STORM, 0, 88, 21, Some(Point(88, 21)), Some(120), Null)

Tracks == UNION {[1..n -> Hours] : n \in 0..MaxDocs}

StoreContents ==
    {(IF kind = "foreign" THEN <<ForeignDoc>> ELSE <<>>)
        \o [i \in 1..Len(h) |-> TrackDoc(h[i], ~(kind = "bare" /\ i = 1))] :
        h \in Tracks, kind \in {"plain", "foreign", "bare"}}

IngestIdle ==
    /\ pc = "idle"
    /\ kml_bytes = Null
    /\ storm_data = <<>>
    /\ log = <<>>
    /\ failed = Null
    /\ runs = 0
    /\ completed = 0

ParseIdle ==
    /\ doc = Null
    /\ records = Null
    /\ trail = <<>>

ServiceIdle ==
    /\ db_client = Null
    /\ track_collection = Null
    /\ connects = 0
    /\ lastcall = Null
    /\ request = Null
    /\ rule = "none"
    /\ result = <<>>
    /\ response = Null

Init ==
    /\ store \in StoreContents
    /\ indexes = {}
    /\ ServiceIdle
    /\ IngestIdle
    /\ ParseIdle

Next ==
    \/ \E up \in BOOLEAN : Startup(up)
    \/ \E req \in Requests, fault \in {"none", "connect", "query"} :
          GetTrackData(req, fault)
    \/ Reply
    \/ AppRun

Spec == Init /\ [][Next]_vars

\* ------------------------------------------- properties of the service

Answered == ~IsNull(response)
Req == Get(request)
Resp == Get(response)

\* The storm a request asks for: storm_id, or the fixed constant if omitted.
AskedStorm == IF IsNull(Req.storm_id) THEN "BESTTRACK_2020" ELSE Get(Req.storm_id)

IsIso(p) == ~IsNull(p) /\ Get(p).kind = "iso"
IsMalformed(p) == ~IsNull(p) /\ Get(p).kind = "malformed"
\* The instant an ISO parameter denotes, on the store's UTC hour scale.
Instant(p) == Get(p).wall - Get(p).off

StormDocs(sid) == {i \in DOMAIN store : store[i].storm_id = sid}
Occurrences(seq, d) == Cardinality({i \in DOMAIN seq : seq[i] = d})
Ascending(seq) ==
    \A i \in 1..(Len(seq) - 1) : seq[i].timestamp <= seq[i + 1].timestamp
\* seq holds exactly the stored documents at the positions idx.
ExactlyDocs(seq, idx) ==
    /\ Len(seq) = Cardinality(idx)
    /\ \A d \in Range(seq) \cup {store[i] : i \in idx} :
         Occurrences(seq, d) = Cardinality({i \in idx : store[i] = d})

\* C1: a successful answer to a well-formed `timestamp` holds at most one
\* feature: the asked storm's document with the greatest stored timestamp at
\* or before the target instant; if the storm has documents but none at or
\* before the target, its earliest document; never another storm's.
C1_NearestBefore ==
    (Answered /\ Resp.status = 200 /\ IsIso(Req.timestamp)) =>
        LET mine == StormDocs(AskedStorm)
            target == Instant(Req.timestamp)
            before == {i \in mine : store[i].timestamp <= target}
        IN  /\ Len(Resp.features) <= 1
            /\ Len(result) <= 1
            /\ \A d \in Range(result) : d.storm_id = AskedStorm
            /\ before # {} =>
                 /\ Len(result) = 1
                 /\ result[1] \in {store[i] : i \in before}
                 /\ \A i \in before : store[i].timestamp <= result[1].timestamp
            /\ (before = {} /\ mine # {}) =>
                 /\ Len(result) = 1
                 /\ result[1] \in {store[i] : i \in mine}
                 /\ \A i \in mine : result[1].timestamp <= store[i].timestamp
            /\ mine = {} => result = <<>>

\* The same for parameters written in UTC (offset zero), where the target
\* string the handler compares equals the target instant.
NearestBeforeUtc ==
    (Answered /\ IsIso(Req.timestamp) /\ Get(Req.timestamp).off = 0)
        => C1_NearestBefore

\* C2: with no `timestamp` and well-formed `start` and `end`, a successful
\* answer holds exactly the asked storm's documents whose timestamp lies in
\* [start, end], both bounds included, in ascending timestamp order.
C2_InclusiveRange ==
    (Answered /\ Resp.status = 200 /\ IsNull(Req.timestamp)
        /\ IsIso(Req.start) /\ IsIso(Req.end)) =>
        /\ Ascending(result)
        /\ ExactlyDocs(result,
              {i \in StormDocs(AskedStorm) :
                  /\ Instant(Req.start) <= store[i].timestamp
                  /\ store[i].timestamp <= Instant(Req.end)})

RangeUtc ==
    (Answered /\ IsIso(Req.start) /\ IsIso(Req.end)
        /\ Get(Req.start).off = 0 /\ Get(Req.end).off = 0)
        => C2_InclusiveRange

\* C3: a request whose time parameter in use (`timestamp` when given, else
\* `start`/`end` when both are given) is a malformed instant string is
\* answered 400, in every state of the service, store connection unavailable
\* included.
C3_Malformed400 ==
    (Answered /\
        \/ IsMalformed(Req.timestamp)
        \/ /\ ~Truthy(Req.timestamp)
           /\ Truthy(Req.start) /\ Truthy(Req.end)
           /\ (IsMalformed(Req.start) \/ IsMalformed(Req.end)))
    => Resp.status = 400

\* With the handle obtained the malformed parameter is answered 400.
Malformed400Connected ==
    (Answered /\ ~IsNull(track_collection)) => C3_Malformed400

\* A step in which get_db_collection is called (by the startup code or by
\* the handler).
CallStep == IsNull(lastcall) /\ ~IsNull(lastcall')

\* C7: the handle is made lazily and reused.  A call that fails to connect
\* leaves the cached handle unset, and a call made with the handle unset
\* attempts the connection (again); once a handle is cached it never changes,
\* no further connection is attempted, and every call returns that handle.
C7_LazyHandle ==
    /\ [](~IsNull(lastcall) =>
            /\ (Get(lastcall).attempted /\ ~Get(lastcall).up)
                  => IsNull(track_collection)
            /\ Get(lastcall).returned = track_collection)
    /\ [][(CallStep /\ IsNull(track_collection))
            => (connects' = connects + 1 /\ Get(lastcall').attempted)]_vars
    /\ [][~IsNull(track_collection) =>
            /\ track_collection' = track_collection
            /\ connects' = connects
            /\ CallStep => (/\ Get(lastcall').returned = track_collection
                            /\ ~Get(lastcall').attempted)]_vars

\* A first attempt failed, the next call connected, and a later call got the
\* cached handle back without connecting.
C7_Witness ==
    /\ connects = 2
    /\ track_collection = Some(2)
    /\ ~IsNull(lastcall)
    /\ ~Get(lastcall).attempted
    /\ Get(lastcall).returned = Some(2)

\* A request reached the time filter (the handle was there).
Filtered == Answered /\ rule # "none"

Present(p) == ~IsNull(p)
Given(p) == ~IsNull(p) /\ Get(p).kind # "empty"

\* What the priority order promises of an answered request, for a reading
\* Has(p) of "the parameter is present".
PriorityOrder(Has(_)) ==
    Filtered =>
        /\ Has(Req.timestamp) =>
              /\ rule = "exact"
              /\ IsIso(Req.timestamp) => Resp.status # 400
        /\ (rule = "range") <=>
              (~Has(Req.timestamp) /\ Has(Req.start) /\ Has(Req.end))
        /\ (~Has(Req.timestamp) /\ ~(Has(Req.start) /\ Has(Req.end))) =>
              /\ rule = "all"
              /\ Resp.status # 400
              /\ Resp.status = 200 =>
                    /\ Ascending(result)
                    /\ ExactlyDocs(result, StormDocs(AskedStorm))
        /\ \A d \in Range(result) : d.storm_id = AskedStorm

\* C8 as stated: the rules apply in priority order by which parameters are
\* present: `timestamp` present selects the exact rule whatever `start` and
\* `end` hold; the range rule needs `timestamp` absent and both `start` and
\* `end` present; every other case returns the whole track in ascending
\* order; `storm_id` defaults to the fixed constant.
C8_PriorityByPresence == PriorityOrder(Present)

\* C8 amended: the same with "present" read as "present and not empty".
C8_PriorityByNonEmpty == PriorityOrder(Given)

\* A well-formed `timestamp` was answered 200 by the exact rule although
\* `start` was malformed.
C8_Witness ==
    /\ Filtered
    /\ rule = "exact"
    /\ IsIso(Req.timestamp)
    /\ IsMalformed(Req.start)
    /\ Resp.status = 200
    /\ Len(result) = 1

\* The result documents that carry a location, in result order.
Located(seq) == SelectSeq(seq, LAMBDA d : ~IsNull(d.location))

\* C10: every successful response is one feature collection (also when
\* nothing matched); it holds one feature per result document that has a
\* location, in result order, with the stored location as geometry and
\* {timestamp, wind_kts, pressure_mb, storm_id} as properties; documents
\* without a location give no feature.
C10_FeatureCollection ==
    (Answered /\ Resp.status = 200) =>
        LET loc == Located(result)
            fs == Resp.features
        IN  /\ Resp.type = "FeatureCollection"
            /\ Len(fs) = Len(loc)
            /\ \A i \in DOMAIN fs :
                 /\ fs[i].type = "Feature"
                 /\ fs[i].geometry = Get(loc[i].location)
                 /\ DOMAIN fs[i].properties =
                      {"timestamp", "wind_kts", "pressure_mb", "storm_id"}
                 /\ fs[i].properties.timestamp = loc[i].timestamp
                 /\ fs[i].properties.wind_kts = loc[i].wind_kts
                 /\ fs[i].properties.pressure_mb = loc[i].pressure_mb
                 /\ fs[i].properties.storm_id = loc[i].storm_id

\* A result of two documents, the first without a location, answered with
\* the one feature of the second.
C10_Witness ==
    /\ Answered
    /\ Resp.status = 200
    /\ Len(result) = 2
    /\ IsNull(result[1].location)
    /\ Len(Resp.features) = 1
    /\ Resp.features[1].properties.timestamp = result[2].timestamp

\* ISO strings that denote the same instant as parameter p, whatever their
\* offset.
SameInstant(p) ==
    {s \in IsoStrings : UtcInstant(Get(FromIsoFormat(s))) = Instant(p)}

\* C11: query instants are compared as UTC instants: the string compared
\* with the stored timestamps is the parameter's instant converted to UTC,
\* so a successful answer to a well-formed `timestamp`, or `start` and `end`,
\* is also the answer to every parameter that denotes the same instant with
\* another offset.
C11_UtcComparison ==
    (Filtered /\ Resp.status = 200) =>
        /\ (rule = "exact" /\ IsIso(Req.timestamp)) =>
              /\ Strftime(Get(FromIsoFormat(Get(Req.timestamp))))
                    = Instant(Req.timestamp)
              /\ \A s \in SameInstant(Req.timestamp) :
                    result \in ExactQuery(store, AskedStorm,
                                          Get(FromIsoFormat(s)))
        /\ (rule = "range" /\ IsIso(Req.start) /\ IsIso(Req.end)) =>
              /\ Strftime(Get(FromIsoFormat(Get(Req.start))))
                    = Instant(Req.start)
              /\ Strftime(Get(FromIsoFormat(Get(Req.end))))
                    = Instant(Req.end)
              /\ \A s \in SameInstant(Req.start), e \in SameInstant(Req.end) :
                    result \in RangeQuery(store, AskedStorm,
                                          Get(FromIsoFormat(s)),
                                          Get(FromIsoFormat(e)))

\* ------------------------------------- SpecParse: parse_kml_features alone

KML_NS == "http://www.opengis.net/kml/2.2"
GX_NS == "http://www.google.com/kml/ext/2.2"
ElementNamespaces == {"", KML_NS, GX_NS}

\* Coordinates texts: lon,lat,alt; lon,lat; one field; a bad latitude; a bad
\* longitude.
CoordTexts ==
    {<<Some(80), Some(13), Some(0)>>, <<Some(80), Some(13)>>, <<Some(80)>>,
     <<Some(80), Null>>, <<Null, Some(13)>>}

\* DTG values: "20201125HHZ"; the same without the Z; 11 characters not
\* ending in Z; 12 characters ending in Z; 11 characters ending in Z that are
\* no date ("2020139906Z").
DtgOk(h) == [len |-> 11, z |-> TRUE, hour |-> Some(h)]
DtgValues ==
    {DtgOk(h) : h \in Hours}
    \cup {[len |-> 10, z |-> FALSE, hour |-> Some(0)],
          [len |-> 11, z |-> FALSE, hour |-> Some(0)],
          [len |-> 12, z |-> TRUE, hour |-> Some(0)],
          [len |-> 11, z |-> TRUE, hour |-> Null]}

\* Intensity values: "35", "-5", "N/A", "".
Digits(n, unit) == [kind |-> "digits", value |-> n, unit |-> unit]
NotANumber == [kind |-> "text", value |-> 0, unit |-> ""]
IntensityValues ==
    {Digits(35, ""), [kind |-> "signed", value |-> 5, unit |-> ""],
     NotANumber, [kind |-> "empty", value |-> 0, unit |-> ""]}

\* MSLP values: "987 mb", "987", "N/A", "-5 mb".
MslpValues ==
    {Digits(987, " mb"), Digits(987, ""), NotANumber,
     [kind |-> "signed", value |-> 5, unit |-> " mb"]}

Optional(S) == {Null} \cup {Some(x) : x \in S}

Cells == [dtg : Optional(DtgValues), intensity : Optional(IntensityValues),
          mslp : Optional(MslpValues)]

\* A placemark whose elements all lie in namespace ns.
Placemark(ns, text, cells) ==
    [ns |-> ns,
     point |-> IF IsNull(text) THEN Null
               ELSE Some([pns |-> ns, cns |-> ns, text |-> Get(text)]),
     desc |-> IF IsNull(cells) THEN Null
              ELSE Some([dns |-> ns, cells |-> Get(cells)])]

Document(nsmap, pms) ==
    [empty |-> FALSE, valid |-> TRUE, nsmap |-> nsmap, placemarks |-> pms]
EmptyBytes ==
    [empty |-> TRUE, valid |-> FALSE, nsmap |-> <<>>, placemarks |-> <<>>]
InvalidXml ==
    [empty |-> FALSE, valid |-> FALSE, nsmap |-> <<>>, placemarks |-> <<>>]

DefaultKml == <<[prefix |-> "", uri |-> KML_NS]>>

\* One placemark, every combination of coordinates text and cells.
ContentDocs ==
    {Document(DefaultKml, <<Placemark(KML_NS, text, cells)>>) :
        text \in Optional(CoordTexts), cells \in Optional(Cells)}

\* The placemarks of a track file: complete at hour h; without wind and
\* pressure values; without a DTG cell; without coordinates; with a DTG that
\* is no date-hour.
Complete(h) ==
    Placemark(KML_NS, Some(<<Some(80 + h), Some(13), Some(0)>>),
              Some([dtg |-> Some(DtgOk(h)),
                    intensity |-> Some(Digits(30 + 5 * h, "")),
                    mslp |-> Some(Digits(1000 - h, " mb"))]))
Sparse(h) ==
    Placemark(KML_NS, Some(<<Some(80 + h), Some(13)>>),
              Some([dtg |-> Some(DtgOk(h)), intensity |-> Some(NotANumber),
                    mslp |-> Null]))
Undated ==
    Placemark(KML_NS, Some(<<Some(85), Some(15), Some(0)>>),
              Some([dtg |-> Null, intensity |-> Some(Digits(40, "")),
                    mslp |-> Some(Digits(990, " mb"))]))
Unplaced ==
    Placemark(KML_NS, Null,
              Some([dtg |-> Some(DtgOk(0)), intensity |-> Some(Digits(40, "")),
                    mslp |-> Some(Digits(990, " mb"))]))
TrackPlacemarks ==
    {Complete(h) : h \in Hours} \cup {Sparse(h) : h \in Hours}
        \cup {Undated, Unplaced}

TrackDocuments ==
    {Document(DefaultKml, pms) :
        pms \in UNION {[1..n -> TrackPlacemarks] : n \in 0..MaxPlacemarks}}

\* root.nsmap: up to MaxNamespaces declarations with distinct prefixes.
Declarations == [prefix : {"", "kml", "gx", "atom"}, uri : {KML_NS, GX_NS}]
NsMaps ==
    {m \in UNION {[1..n -> Declarations] : n \in 0..MaxNamespaces} :
        \A i, j \in DOMAIN m : i # j => m[i].prefix # m[j].prefix}

GoodCells == [dtg |-> Some(DtgOk(0)), intensity |-> Some(Digits(35, "")),
              mslp |-> Some(Digits(987, " mb"))]

\* One complete placemark whose element, Point, coordinates and description
\* lie in any namespaces, under any namespace map.
MixedDocs ==
    {Document(m, <<[ns |-> ns,
                    point |-> Some([pns |-> pns, cns |-> cns,
                                    text |-> <<Some(80), Some(13), Some(0)>>]),
                    desc |-> Some([dns |-> dns, cells |-> GoodCells])]>>) :
        m \in NsMaps, ns \in ElementNamespaces, pns \in ElementNamespaces,
        cns \in ElementNamespaces, dns \in ElementNamespaces}

\* Placemarks each wholly in one namespace, under any namespace map.
UniformDocs ==
    {Document(m, [i \in 1..Len(nss) |->
                     Placemark(nss[i],
                               Some(<<Some(80 + i), Some(13), Some(0)>>),
                               Some(GoodCells))]) :
        m \in NsMaps,
        nss \in UNION {[1..n -> ElementNamespaces] : n \in 0..MaxPlacemarks}}

Documents ==
    {EmptyBytes, InvalidXml} \cup ContentDocs \cup TrackDocuments
        \cup MixedDocs \cup UniformDocs

InitParse ==
    /\ doc \in {Some(d) : d \in Documents}
    /\ records = Null
    /\ trail = <<>>
    /\ store = <<>>
    /\ indexes = {}
    /\ ServiceIdle
    /\ IngestIdle

\* records = parse_kml_features(kml_content_bytes); trail keeps the locals
\* of each loop iteration.
Parse ==
    /\ IsNull(records)
    /\ records' = Some(ParseKmlFeatures(Get(doc)))
    /\ trail' = Extracted(Get(doc))
    /\ UNCHANGED <<doc, store, indexes, serviceVars, ingestVars>>

NextParse == Parse

SpecParse == InitParse /\ [][NextParse]_vars

\* ------------------------------- SpecIngest: load_track_data.py's main

\* What KMZ_FILE_PATH may hold: no readable archive; an archive without a
\* .kml entry; an archive whose first .kml entry is empty, is not XML, or is
\* a track document of complete and undated placemarks.
IngestDocuments ==
    {EmptyBytes, InvalidXml}
    \cup {Document(DefaultKml, pms) :
            pms \in UNION {[1..n -> {Complete(h) : h \in Hours} \cup {Undated}] :
                              n \in 0..MaxPlacemarks}}
Archives ==
    {[readable |-> FALSE, entries |-> <<>>], [readable |-> TRUE, entries |-> <<>>]}
    \cup {[readable |-> TRUE, entries |-> <<d>>] : d \in IngestDocuments}

\* find_kml_in_kmz(kmz_path): the bytes of the first .kml entry, or Null.
FindKmlInKmz(archive) ==
    IF ~archive.readable \/ Len(archive.entries) = 0 THEN Null
    ELSE Some(archive.entries[1])

\* if kml_bytes:
KmlBytesTruthy(b) == ~IsNull(b) /\ ~Get(b).empty

\* Variant: the run goes on with an empty record list.
StormDataTruthyAlways(sd) == TRUE

\* if storm_data:
StormDataTruthy(sd) == Len(sd) > 0

\* Variant: the old batch is left in place.
DeleteManyNothing(st, sid) == st

\* collection.delete_many({"storm_id": sid}): the collection afterwards.
DeleteMany(st, sid) == SelectSeq(st, LAMBDA d : d.storm_id # sid)

\* collection.insert_many(docs), stopped after the first n documents (all of
\* them when it succeeds).
InsertMany(st, docs, n) == st \o SubSeq(docs, 1, n)

\* What the collection may hold before a run: nothing; another storm's
\* document; an old batch of the same storm, alone or around another storm's
\* document.
IngestStores ==
    {<<>>, <<ForeignDoc>>, <<TrackDoc(0, TRUE)>>,
     <<TrackDoc(0, TRUE), ForeignDoc, TrackDoc(MaxHour, TRUE)>>}

InitIngest ==
    /\ store \in IngestStores
    /\ indexes = {}
    /\ ServiceIdle
    /\ IngestIdle
    /\ ParseIdle

Step(name) == /\ log' = Append(log, name)
              /\ UNCHANGED <<runs, serviceVars, parseVars>>
Abort(name) == /\ failed' = Some(name)
               /\ pc' = "aborted"
               /\ UNCHANGED completed
GoOn(next) == /\ failed' = failed
              /\ pc' = next
              /\ UNCHANGED completed

\* The script is started.
StartRun ==
    /\ pc \in {"idle", "done", "aborted"}
    /\ runs < MaxRuns
    /\ runs' = runs + 1
    /\ pc' = "read"
    /\ kml_bytes' = Null
    /\ storm_data' = <<>>
    /\ log' = <<>>
    /\ failed' = Null
    /\ UNCHANGED <<store, indexes, completed, serviceVars, parseVars>>

\* kml_bytes = find_kml_in_kmz(KMZ_FILE_PATH); if kml_bytes: ... else:
\* "Could not read KML from KMZ file."
ReadArchive(archive) ==
    /\ pc = "read"
    /\ Step("ReadArchive")
    /\ kml_bytes' = FindKmlInKmz(archive)
    /\ IF KmlBytesTruthy(kml_bytes') THEN GoOn("parse")
       ELSE Abort("ReadArchive")
    /\ UNCHANGED <<store, indexes, storm_data>>

\* storm_data = parse_kml_features(kml_bytes); if storm_data: ... else:
\* "No data extracted from KML, nothing to insert into database."
ParseMarkup ==
    /\ pc = "parse"
    /\ Step("ParseMarkup")
    /\ storm_data' = ParseKmlFeatures(Get(kml_bytes))
    /\ IF StormDataTruthy(storm_data') THEN GoOn("connect")
       ELSE Abort("ParseMarkup")
    /\ UNCHANGED <<store, indexes, kml_bytes>>

\* MongoClient(...); client.admin.command('ismaster')
Connect(ok) ==
    /\ pc = "connect"
    /\ Step("Connect")
    /\ IF ok THEN GoOn("delete") ELSE Abort("Connect")
    /\ UNCHANGED <<store, indexes, kml_bytes, storm_data>>

\* collection.delete_many({"storm_id": STORM_NAME_FOR_DB})
DeleteExisting(ok) ==
    /\ pc = "delete"
    /\ Step("DeleteExisting")
    /\ IF ok THEN /\ store' = DeleteMany(store, STORM_NAME_FOR_DB)
                  /\ GoOn("insert")
       ELSE /\ store' = store
            /\ Abort("DeleteExisting")
    /\ UNCHANGED <<indexes, kml_bytes, storm_data>>

\* collection.insert_many(storm_data): all documents, or, when it raises,
\* those written before the error.
BulkInsert ==
    /\ pc = "insert"
    /\ Step("BulkInsert")
    /\ \E n \in 0..Len(storm_data) :
          /\ store' = InsertMany(store, storm_data, n)
          /\ IF n = Len(storm_data) THEN GoOn("index_location")
             ELSE Abort("BulkInsert")
    /\ UNCHANGED <<indexes, kml_bytes, storm_data>>

\* collection.create_index([("location", pymongo.GEOSPHERE)])
EnsureLocationIndex(ok) ==
    /\ pc = "index_location"
    /\ Step("EnsureLocationIndex")
    /\ IF ok THEN /\ indexes' = indexes \cup {"location_2dsphere"}
                  /\ GoOn("index_timestamp")
       ELSE /\ indexes' = indexes
            /\ Abort("EnsureLocationIndex")
    /\ UNCHANGED <<store, kml_bytes, storm_data>>

\* collection.create_index([("timestamp", pymongo.ASCENDING)]), then
\* "Data loading complete!"
EnsureTimestampIndex(ok) ==
    /\ pc = "index_timestamp"
    /\ Step("EnsureTimestampIndex")
    /\ IF ok THEN /\ indexes' = indexes \cup {"timestamp_1"}
                  /\ failed' = failed
                  /\ pc' = "done"
                  /\ completed' = completed + 1
       ELSE /\ indexes' = indexes
            /\ Abort("EnsureTimestampIndex")
    /\ UNCHANGED <<store, kml_bytes, storm_data>>

NextIngest ==
    \/ StartRun
    \/ \E archive \in Archives : ReadArchive(archive)
    \/ ParseMarkup
    \/ \E ok \in BOOLEAN : Connect(ok)
    \/ \E ok \in BOOLEAN : DeleteExisting(ok)
    \/ BulkInsert
    \/ \E ok \in BOOLEAN : EnsureLocationIndex(ok)
    \/ \E ok \in BOOLEAN : EnsureTimestampIndex(ok)

SpecIngest == InitIngest /\ [][NextIngest]_vars

\* ------------------------------------------- properties of the parser

Parsed == ~IsNull(records)
Input == Get(doc)
Output == Get(records)

\* What the claims call resolved, read off the source text: a coordinates
\* text with two leading numeric fields; a DTG value of the exact shape
\* YYYYMMDDHHZ that is a date-hour.
CoordinatesResolve(text) ==
    ~IsNull(text) /\ Len(Get(text)) >= 2
        /\ ~IsNull(Get(text)[1]) /\ ~IsNull(Get(text)[2])
DtgResolves(cells) ==
    /\ ~IsNull(cells)
    /\ ~IsNull(Get(cells).dtg)
    /\ Get(Get(cells).dtg).z
    /\ Get(Get(cells).dtg).len = 11
    /\ ~IsNull(Get(Get(cells).dtg).hour)
Resolved(e) == CoordinatesResolve(e.coord_text) /\ DtgResolves(e.desc_text)

\* A numeric cell that is absent or holds no number.
NoNumber(cells, name) ==
    \/ IsNull(cells)
    \/ IsNull(Get(cells)[name])
    \/ Get(Get(cells)[name]).kind \in {"text", "empty"}

\* C5: the parser emits exactly one record per placemark whose coordinates
\* (lon and lat) and DTG timestamp both resolved, in placemark order, and
\* none for any other placemark; wind and pressure do not enter the
\* decision, and an absent or unparseable one is left unset; every record
\* has storm_id, timestamp and location, location.coordinates = [lon, lat].
C5_Admission ==
    Parsed =>
        LET kept == SelectSeq(trail, Resolved)
        IN  /\ Len(Output) = Len(kept)
            /\ \A k \in DOMAIN Output :
                 LET r == Output[k]
                     text == Get(kept[k].coord_text)
                     cells == kept[k].desc_text
                 IN  /\ r.storm_id = "BESTTRACK_2020"
                     /\ r.timestamp = Get(Get(Get(cells).dtg).hour)
                     /\ ~IsNull(r.location)
                     /\ Get(r.location).type = "Point"
                     /\ Get(r.location).coordinates =
                            <<Get(text[1]), Get(text[2])>>
                     /\ r.longitude = Get(text[1])
                     /\ r.latitude = Get(text[2])
                     /\ NoNumber(cells, "intensity") => IsNull(r.wind_kts)
                     /\ NoNumber(cells, "mslp") => IsNull(r.pressure_mb)
                     /\ r.wind_kts = kept[k].wind_kts
                     /\ r.pressure_mb = kept[k].pressure_mb

\* Two placemarks were read: the first had coordinates and wind but no DTG
\* and gave no record; the second gave a record with wind and pressure unset.
C5_Witness ==
    /\ Parsed
    /\ Len(trail) = 2
    /\ CoordinatesResolve(trail[1].coord_text)
    /\ ~IsNull(trail[1].wind_kts)
    /\ ~DtgResolves(trail[1].desc_text)
    /\ Len(Output) = 1
    /\ IsNull(Output[1].wind_kts)
    /\ IsNull(Output[1].pressure_mb)

\* The namespace C9 says is searched under: the default one if declared,
\* else the one under prefix kml, else the first declared; Null if the
\* document declares none.
SearchNamespace(nsmap) ==
    LET Under(prefix) == {i \in DOMAIN nsmap : nsmap[i].prefix = prefix}
    IN  IF Under("") # {} THEN Some(nsmap[CHOOSE i \in Under("") : TRUE].uri)
        ELSE IF Under("kml") # {}
        THEN Some(nsmap[CHOOSE i \in Under("kml") : TRUE].uri)
        ELSE IF nsmap # <<>> THEN Some(nsmap[1].uri)
        ELSE Null

\* The placemark positions C9 says are read: those in the search namespace,
\* or, when there are none or no namespace is declared, the unqualified ones.
PlacemarksRead(d) ==
    LET ns == SearchNamespace(d.nsmap)
        In(uri) == {i \in DOMAIN d.placemarks : d.placemarks[i].ns = uri}
    IN  IF ~IsNull(ns) /\ In(Get(ns)) # {} THEN In(Get(ns)) ELSE In("")

\* The k-th smallest element of a set of numbers.
Nth(S, k) == CHOOSE x \in S : Cardinality({y \in S : y <= x}) = k

\* qualified if it found something, else unqualified.
TwoTier(qualified, unqualified) ==
    IF ~IsNull(qualified) THEN qualified ELSE unqualified

\* C9: placemarks are looked up under the search namespace and, when that
\* finds none or no namespace is declared, unqualified; the coordinates and
\* description of each placemark read are looked up the same way; what the
\* lookups find is what is extracted.
C9_TwoTierLookup ==
    (Parsed /\ Input.valid) =>
        LET read == PlacemarksRead(Input)
            ns == SearchNamespace(Input.nsmap)
        IN  /\ Len(trail) = Cardinality(read)
            /\ \A k \in DOMAIN trail :
                 LET pm == Input.placemarks[Nth(read, k)]
                     PointUnder(uri) ==
                         IF /\ ~IsNull(pm.point)
                            /\ Get(pm.point).pns = uri
                            /\ Get(pm.point).cns = uri
                         THEN Some(Get(pm.point).text) ELSE Null
                     DescUnder(uri) ==
                         IF ~IsNull(pm.desc) /\ Get(pm.desc).dns = uri
                         THEN Some(Get(pm.desc).cells) ELSE Null
                 IN  /\ trail[k].coord_text =
                          TwoTier(IF IsNull(ns) THEN Null
                                  ELSE PointUnder(Get(ns)), PointUnder(""))
                     /\ trail[k].desc_text =
                          TwoTier(IF IsNull(ns) THEN Null
                                  ELSE DescUnder(Get(ns)), DescUnder(""))
            /\ Len(Output) = Len(SelectSeq(trail, Resolved))

\* A document that declares only a gx namespace, with two unqualified
\* placemarks: both were read by the unqualified search and gave records.
C9_Witness ==
    /\ Parsed
    /\ Len(Input.nsmap) = 1
    /\ Input.nsmap[1].prefix = "gx"
    /\ Len(Input.placemarks) = 2
    /\ \A i \in 1..2 : Input.placemarks[i].ns = ""
    /\ Len(Output) = 2
    /\ Output[1].longitude = 81
    /\ Output[2].longitude = 82

\* ------------------------------------------ properties of the ingestion

Mine(d) == d.storm_id = STORM_NAME_FOR_DB
OurDocs(st) == SelectSeq(st, Mine)
OtherDocs(st) == SelectSeq(st, LAMBDA d : ~Mine(d))

\* C4: when a run has completed, the collection holds for storm
\* BESTTRACK_2020 exactly the records that run extracted from its archive,
\* in their order, with nothing of an earlier batch left and nothing
\* appended to it; and no step of any run changes the documents of other
\* storms.
C4_ReplaceBatch ==
    /\ [](pc = "done" =>
            /\ OurDocs(store) = storm_data
            /\ storm_data = ParseKmlFeatures(Get(kml_bytes))
            /\ Len(OurDocs(store)) = Len(storm_data))
    /\ [][OtherDocs(store') = OtherDocs(store)]_vars

\* A second completed run, over a collection that also holds another
\* storm's document, has left that document and its own single record.
C4_Witness ==
    /\ pc = "done"
    /\ completed = 2
    /\ Len(storm_data) = 1
    /\ store = <<ForeignDoc>> \o storm_data

StepOrder ==
    <<"ReadArchive", "ParseMarkup", "Connect", "DeleteExisting", "BulkInsert",
      "EnsureLocationIndex", "EnsureTimestampIndex">>

Logged(name) == \E i \in 1..Len(log) : log[i] = name

\* C6: the steps of a run happen in the order read, parse, (connect,)
\* delete, insert, location index, timestamp index, each at most once; a
\* step that fails is the last step of its run; the delete happens only
\* after records were extracted and the connection was made; and the run
\* is complete only after the insert and both indexes.
C6_Pipeline ==
    /\ [](/\ Len(log) <= Len(StepOrder)
          /\ log = SubSeq(StepOrder, 1, Len(log))
          /\ ~IsNull(failed) => /\ pc = "aborted"
                                /\ Len(log) > 0
                                /\ Get(failed) = log[Len(log)]
          /\ Logged("DeleteExisting") =>
                /\ Len(storm_data) > 0
                /\ Logged("Connect")
                /\ failed # Some("Connect")
          /\ pc = "done" =>
                /\ log = StepOrder
                /\ IsNull(failed)
                /\ {"location_2dsphere", "timestamp_1"} \subseteq indexes)
    /\ [][~IsNull(failed) => (log' = log \/ log' = <<>>)]_vars

\* A run stopped at the insert, the old batch already deleted and only a
\* part of the new one written.
C6_Witness ==
    /\ pc = "aborted"
    /\ failed = Some("BulkInsert")
    /\ log = SubSeq(StepOrder, 1, 5)
    /\ Len(OurDocs(store)) < Len(storm_data)

====
